---- MODULE Spec2Model ----
(***************************************************************************)
(* A model of agent-smith: the retry wrapper of tools.py, the linear       *)
(* investigation workflow of agent_workflow.py, the SED agent of           *)
(* sed_agent.py and the orchestrator of orchestrator.py.                   *)
(*                                                                         *)
(* Each component has its own group of variables and its own               *)
(* specification; a specification leaves the other groups idle.            *)
(***************************************************************************)
EXTENDS Integers, Sequences, FiniteSets, TLC

VARIABLES
    \* ---- retry_on_error.wrapper (tools.py:19-30), one call of a wrapped function
    site,         \* the call site the outbound request is issued from
    max_retries,  \* decorator argument
    delay,        \* decorator argument
    attempt,      \* the loop variable of "for attempt in range(max_retries)"
    w_pc,         \* "idle" | "loop" | "returned" | "raised"
    w_out,        \* what the wrapper handed to its caller (value or exception)
    log           \* events so far: invocations of the wrapped function and sleeps

retry_vars == <<site, max_retries, delay, attempt, w_pc, w_out, log>>

\* ---- find_relevant_json_object (agent_workflow.py:55-71), one call
VARIABLES
    j_data,       \* the JSON structure searched
    j_query,      \* the query string
    j_pc,         \* "idle" | "call" | "done"
    j_result      \* the list the call returned

json_vars == <<j_data, j_query, j_pc, j_result>>

\* ---- the investigation workflow (agent_workflow.py:246-256), one run
VARIABLES
    wf_pc,            \* the node to run next, "END", or "idle"
    wf_model,         \* whether the Gemini model was initialised (model is not None)
    wf_query,         \* profile["query"]
    raw_chunks,       \* WorkflowState.raw_chunks
    parsed_records,   \* WorkflowState.parsed_records
    analysis_results, \* WorkflowState.analysis_results
    final_report,     \* WorkflowState.final_report
    wf_trace          \* the nodes that have run, in order

wf_vars == <<wf_pc, wf_model, wf_query, raw_chunks, parsed_records,
             analysis_results, final_report, wf_trace>>

\* ---- SEDAgent (sed_agent.py), one run, and its database
VARIABLES
    sed_pc,           \* the step to run next, "in search_documents", "END", "returned" or "idle"
    sed_query,        \* SEDAgentState.query
    original_query,   \* SEDAgentState.original_query
    search_results,   \* SEDAgentState.search_results
    doc_evaluations,  \* SEDAgentState.doc_evaluations
    final_summary,    \* SEDAgentState.final_summary
    doc_summaries,    \* the documents listed in the synthesis prompt, in order
    sed_trace,        \* the steps that have started, in order
    sed_ret,          \* what SEDAgent.run handed to its caller
    db_documents,     \* table documents: the rows, in order
    db_evaluations    \* table evaluations: the rows, in order

sed_vars == <<sed_pc, sed_query, original_query, search_results, doc_evaluations,
              final_summary, doc_summaries, sed_trace, sed_ret, db_documents,
              db_evaluations>>

\* ---- OrchestratorAgent (orchestrator.py), one turn
VARIABLES
    o_pc,         \* the node to run next, "in <node>" during a tool call, "END", "returned" or "idle"
    sed_agent,    \* whether self.sed_agent is set (not None)
    o_input,      \* the messages process_message was called with
    o_plan,       \* what the planner LLM call and json.loads came to in this turn
    messages,     \* MainAgentState.messages
    tool_choice,  \* MainAgentState.tool_choice
    search_query, \* MainAgentState.search_query
    web_results,  \* MainAgentState.search_results
    sed_summary,  \* MainAgentState.sed_summary
    o_trace,      \* the nodes that have started, in order
    o_ret         \* what process_message handed to its caller

orch_vars == <<o_pc, sed_agent, o_input, o_plan, messages, tool_choice, search_query,
               web_results, sed_summary, o_trace, o_ret>>

\* ---- app.py: Agent.process_message, one user turn after another
VARIABLES
    a_pc,             \* the node to run next, "in perform_search", "returned" or "idle"
    a_messages,       \* AgentState.messages (st.session_state.messages between turns)
    should_search,    \* AgentState.should_search
    a_search_results, \* AgentState.search_results
    a_prompt,         \* the sections of the prompt _generate_response sent to the LLM
    a_trace,          \* the nodes of this turn that have started, in order
    a_turns           \* the user turns so far

agent_vars == <<a_pc, a_messages, should_search, a_search_results, a_prompt,
                a_trace, a_turns>>

\* ---- app.py: SearchTool, one instance, and the wrapper around SearchTool.run
VARIABLES
    st_pc,            \* "idle" | "run" | "request" | "returned" | "raised"
    st_attempt,       \* the wrapper's loop variable
    now,              \* time.time(), in seconds
    last_search_time, \* SearchTool.last_search_time
    st_requests       \* the calls of ddgs.text so far: when, and how they ended

tool_vars == <<st_pc, st_attempt, now, last_search_time, st_requests>>

app_vars == <<agent_vars, tool_vars>>

\* ---- the Python process
VARIABLES
    hash_seed         \* the salt of hash() on strings, drawn when the process starts

vars == <<retry_vars, json_vars, wf_vars, sed_vars, orch_vars, app_vars, hash_seed>>

\* What an action of one component leaves alone.
not_retry == <<json_vars, wf_vars, sed_vars, orch_vars, app_vars, hash_seed>>
not_json == <<retry_vars, wf_vars, sed_vars, orch_vars, app_vars, hash_seed>>
not_wf == <<json_vars, sed_vars, orch_vars, app_vars, hash_seed>>
not_sed == <<json_vars, wf_vars, orch_vars, app_vars, hash_seed>>
not_orch == <<json_vars, wf_vars, app_vars, hash_seed>>
not_app == <<retry_vars, json_vars, wf_vars, sed_vars, orch_vars, hash_seed>>

\* ------------------------------------------------------------------ bounds
MaxRetries == 4
MaxDelay == 3
MaxNodes == 4
MaxChunkNodes == 3
MaxTextLen == 3
MaxChunks == 2
MaxSedDocs == 2
MaxDocs == 6
MaxElapsed == 1
MaxTurns == 2
MaxSeeds == 2
MaxStoreDocs == 2
MaxStores == 3

\* ------------------------------------------------------- program constants
\* def retry_on_error(max_retries: int = 3, delay: float = 1.0)
DefaultMaxRetries == 3
DefaultDelay == 1
\* "for i, doc in enumerate(sorted_docs[:5])"
TopK == 5

None == [kind |-> "None"]

\* The empty string, where a string is modelled by what it was built from.
EmptyStr == [kind |-> "str", is |-> ""]

\* ======================================================================
\* tools.py: retry_on_error
\* ======================================================================

\* The functions of tools.py that carry the @retry_on_error() decorator.
DecoratedSites == {"WebSearchTool.run", "SEDSearchTool.search"}

\* What one invocation of the wrapped function can do: return, or raise one
\* of the exceptions the body lets out.
\*   WebSearchTool.run: ddgs.text raises, nothing is caught in the body.
\*   SEDSearchTool.search: the body turns every RequestException into
\*   SEDError; any other exception (response.json(), "in data") passes.
BodyOutcomes(s) ==
    CASE s = "WebSearchTool.run"     -> {"ok", "DuckDuckGoSearchException", "Exception"}
      [] s = "SEDSearchTool.search"  -> {"ok", "SEDError", "Exception"}
      [] OTHER                       -> {"ok", "Exception", "ValueError"}

\* "if attempt == max_retries - 1: raise"
IsLastAttemptOffByOne(a, n) == a = n
IsLastAttempt(a, n) == a = n - 1

\* "time.sleep(delay * (attempt + 1))"
BackoffConstant(d, a) == d
Backoff(d, a) == d * (a + 1)

Call(n, outcome) == [ev |-> "call", n |-> n, outcome |-> outcome]
Sleep(secs) == [ev |-> "sleep", secs |-> secs]

\* The invocations of the wrapped function, and the sleeps, in order.
Calls == SelectSeq(log, LAMBDA e : e.ev = "call")
Sleeps == SelectSeq(log, LAMBDA e : e.ev = "sleep")

\* One iteration of "for attempt in range(max_retries)": the wrapped function
\* is invoked; its value is returned, or its exception is re-raised on the
\* last attempt, or the wrapper sleeps and goes round again.
WrapperAttempt ==
    /\ w_pc = "loop"
    /\ attempt < max_retries
    /\ \E outcome \in BodyOutcomes(site) :
         LET n == Len(Calls) + 1
             called == Append(log, Call(n, outcome))
         IN  IF outcome = "ok"
             THEN /\ w_pc' = "returned"
                  /\ w_out' = [kind |-> "value", call |-> n]
                  /\ log' = called
                  /\ UNCHANGED attempt
             ELSE IF IsLastAttempt(attempt, max_retries)
             THEN /\ w_pc' = "raised"
                  /\ w_out' = [kind |-> "exception", type |-> outcome, call |-> n]
                  /\ log' = called
                  /\ UNCHANGED attempt
             ELSE /\ log' = Append(called, Sleep(Backoff(delay, attempt)))
                  /\ attempt' = attempt + 1
                  /\ UNCHANGED <<w_pc, w_out>>
    /\ UNCHANGED <<site, max_retries, delay>>
    /\ UNCHANGED not_retry

\* The loop is exhausted without a return or a raise: "return None".
WrapperFallThrough ==
    /\ w_pc = "loop"
    /\ attempt >= max_retries
    /\ w_pc' = "returned"
    /\ w_out' = None
    /\ UNCHANGED <<site, max_retries, delay, attempt, log>>
    /\ UNCHANGED not_retry

RetryIdle ==
    /\ site = "none"
    /\ max_retries = 0
    /\ delay = 0
    /\ attempt = 0
    /\ w_pc = "idle"
    /\ w_out = None
    /\ log = <<>>

WorkflowIdle ==
    /\ wf_pc = "idle"
    /\ wf_model = FALSE
    /\ wf_query = <<>>
    /\ raw_chunks = <<>>
    /\ parsed_records = <<>>
    /\ analysis_results = <<>>
    /\ final_report = None
    /\ wf_trace = <<>>

SedIdle ==
    /\ sed_pc = "idle"
    /\ sed_query = ""
    /\ original_query = ""
    /\ search_results = <<>>
    /\ doc_evaluations = <<>>
    /\ final_summary = ""
    /\ doc_summaries = <<>>
    /\ sed_trace = <<>>
    /\ sed_ret = None
    /\ db_documents = <<>>
    /\ db_evaluations = <<>>

OrchestratorIdle ==
    /\ o_pc = "idle"
    /\ sed_agent = FALSE
    /\ o_input = <<>>
    /\ o_plan = None
    /\ messages = <<>>
    /\ tool_choice = "none"
    /\ search_query = ""
    /\ web_results = <<>>
    /\ sed_summary = EmptyStr
    /\ o_trace = <<>>
    /\ o_ret = None

JsonIdle ==
    /\ j_data = None
    /\ j_query = <<>>
    /\ j_pc = "idle"
    /\ j_result = <<>>

\* The salts a process can start with.
HashSeeds == 1..MaxSeeds

\* The process has started and drawn its salt; where the salt plays no part
\* the first stands for any.
Started == hash_seed = 1

AppIdle ==
    /\ a_pc = "idle"
    /\ a_messages = <<>>
    /\ should_search = FALSE
    /\ a_search_results = <<>>
    /\ a_prompt = <<>>
    /\ a_trace = <<>>
    /\ a_turns = 0
    /\ st_pc = "idle"
    /\ st_attempt = 0
    /\ now = 0
    /\ last_search_time = 0
    /\ st_requests = <<>>

\* ======================================================================
\* agent_workflow.py: find_relevant_json_object
\* ======================================================================

\* Strings are sequences of one-character strings.
Letters == {"a", "b"}
Leaves == {<<"a">>, <<"b">>, <<"a", "b">>}
Keys == {<<"a">>, <<"b">>}
Queries == {<<"a">>, <<"a", "b">>, <<" ">>}

\* JSON values as json.loads builds them: str, dict (in insertion order), list.
JStr(s) == [t |-> "str", s |-> s, items |-> <<>>]
JDict(items) == [t |-> "dict", s |-> <<>>, items |-> items]
JList(items) == [t |-> "list", s |-> <<>>, items |-> items]

\* The keys of a dict are distinct.
KeySeqs(m) == {ks \in [1..m -> Keys] : \A i, j \in 1..m : i # j => ks[i] # ks[j]}

\* Every JSON value of exactly n nodes (a node is a str, a dict or a list).
TreesOfSize[n \in 0..MaxNodes] ==
    IF n = 0 THEN {}
    ELSE LET RECURSIVE Forest(_)
             Forest(m) ==
                 IF m = 0 THEN {<<>>}
                 ELSE UNION {{<<t>> \o f : t \in TreesOfSize[k], f \in Forest(m - k)} :
                             k \in 1..m}
             kids == Forest(n - 1)
         IN  (IF n = 1 THEN {JStr(s) : s \in Leaves} ELSE {})
             \cup {JList(f) : f \in kids}
             \cup UNION {{JDict([i \in 1..Len(f) |-> [k |-> ks[i], v |-> f[i]]]) :
                            ks \in KeySeqs(Len(f))} : f \in kids}

Trees == UNION {TreesOfSize[n] : n \in 1..MaxNodes}

RECURSIVE Flatten(_)
Flatten(ss) == IF ss = <<>> THEN <<>> ELSE Head(ss) \o Flatten(Tail(ss))

RECURSIVE JoinWith(_, _)
JoinWith(ss, sep) ==
    IF ss = <<>> THEN <<>>
    ELSE IF Len(ss) = 1 THEN ss[1]
    ELSE ss[1] \o sep \o JoinWith(Tail(ss), sep)

\* repr(v) of Python: 'a', {'k': v, 'k': v}, [v, v].
RECURSIVE PyRepr(_)
PyRepr(v) ==
    CASE v.t = "str"  -> <<"'">> \o v.s \o <<"'">>
      [] v.t = "dict" ->
           <<"{">> \o JoinWith([i \in 1..Len(v.items) |->
                                  <<"'">> \o v.items[i].k \o <<"'", ":", " ">>
                                  \o PyRepr(v.items[i].v)], <<",", " ">>) \o <<"}">>
      [] v.t = "list" ->
           <<"[">> \o JoinWith([i \in 1..Len(v.items) |-> PyRepr(v.items[i])],
                               <<",", " ">>) \o <<"]">>

\* str(v) of Python: a str is itself, a container is its repr.
PyStr(v) == IF v.t = "str" THEN v.s ELSE PyRepr(v)

\* "query in s" of Python, on strings.
Contains(q, s) ==
    \E i \in 0..(Len(s) - Len(q)) : SubSeq(s, i + 1, i + Len(q)) = q

\* The values of a dict, the items of a list.
Children(v) ==
    IF v.t = "dict" THEN [i \in 1..Len(v.items) |-> v.items[i].v]
    ELSE v.items

\* "any(query in str(v) for v in data.values())"
AnyValueContains(data, query) ==
    \E i \in 1..Len(data.items) : Contains(query, PyStr(data.items[i].v))

\* A slip: the dict is returned even when a nested object was found.
RECURSIVE find_relevant_json_object_keeps_parent(_, _)
find_relevant_json_object_keeps_parent(data, query) ==
    LET kids == Children(data)
        results == Flatten([i \in 1..Len(kids) |->
                             find_relevant_json_object_keeps_parent(kids[i], query)])
    IN  IF data.t = "dict"
        THEN IF AnyValueContains(data, query)
             THEN results \o <<data>>
             ELSE results
        ELSE IF data.t = "list" THEN results
        ELSE <<>>

RECURSIVE find_relevant_json_object(_, _)
find_relevant_json_object(data, query) ==
    LET kids == Children(data)
        results == Flatten([i \in 1..Len(kids) |->
                             find_relevant_json_object(kids[i], query)])
    IN  IF data.t = "dict"
        THEN IF AnyValueContains(data, query)
             THEN IF results = <<>> THEN <<data>> ELSE results
             ELSE results
        ELSE IF data.t = "list" THEN results
        ELSE <<>>

\* Every node of a JSON value, in document order (a node before its children).
RECURSIVE Preorder(_)
Preorder(v) ==
    <<v>> \o Flatten([i \in 1..Len(Children(v)) |-> Preorder(Children(v)[i])])

\* A dict one of whose values has the query in its str().
Matching(d, q) ==
    /\ d.t = "dict"
    /\ \E i \in 1..Len(d.items) : Contains(q, PyStr(d.items[i].v))

\* A matching dict with no matching dict nested anywhere inside it.
Smallest(d, q) ==
    /\ Matching(d, q)
    /\ \A i \in 2..Len(Preorder(d)) : ~Matching(Preorder(d)[i], q)

\* One call of find_relevant_json_object.
FindRelevant ==
    /\ j_pc = "call"
    /\ j_result' = find_relevant_json_object(j_data, j_query)
    /\ j_pc' = "done"
    /\ UNCHANGED <<j_data, j_query>>
    /\ UNCHANGED not_json

InitJson ==
    /\ Started
    /\ j_data \in Trees
    /\ j_query \in Queries
    /\ j_pc = "call"
    /\ j_result = <<>>
    /\ RetryIdle
    /\ WorkflowIdle
    /\ SedIdle
    /\ OrchestratorIdle
    /\ AppIdle

NextJson == FindRelevant

SpecJson == InitJson /\ [][NextJson]_vars

\* ======================================================================
\* agent_workflow.py: the investigation workflow
\* ======================================================================

\* The text a chunk can hold: short texts of letters, blanks and newlines,
\* and the JSON text of a JSON value.
TextChars == Letters \cup {" ", "\n"}
Texts == UNION {[1..n -> TextChars] : n \in 0..MaxTextLen}

\* The JSON text of a value, as the API serialises it: "a", {"k": v}, [v, v].
RECURSIVE JsonText(_)
JsonText(v) ==
    CASE v.t = "str"  -> <<"\"">> \o v.s \o <<"\"">>
      [] v.t = "dict" ->
           <<"{">> \o JoinWith([i \in 1..Len(v.items) |->
                                  <<"\"">> \o v.items[i].k \o <<"\"", ":", " ">>
                                  \o JsonText(v.items[i].v)], <<",", " ">>) \o <<"}">>
      [] v.t = "list" ->
           <<"[">> \o JoinWith([i \in 1..Len(v.items) |-> JsonText(v.items[i])],
                               <<",", " ">>) \o <<"]">>

JsonDocs == UNION {TreesOfSize[n] : n \in 1..MaxChunkNodes}
JsonTexts == {<<JsonText(t), t>> : t \in JsonDocs}

JSONDecodeError == [kind |-> "JSONDecodeError"]

\* json.loads(content_str): the value whose JSON text the string is, or
\* JSONDecodeError when the string is the JSON text of no value.
json_loads(content_str) ==
    IF \E p \in JsonTexts : p[1] = content_str
    THEN (CHOOSE p \in JsonTexts : p[1] = content_str)[2]
    ELSE JSONDecodeError

\* The mime types the API tags a file with; "absent": the key is missing.
MimeTypes == {"application/json", "text/plain", "absent"}
FilePaths == {"/data/f1", "absent"}

\* mime_type = file_meta.get("mime_type", "text/plain")
MimeOf(chunk) == IF chunk.mime_type = "absent" THEN "text/plain" ELSE chunk.mime_type
\* file_path = file_meta.get("file_path", "N/A")
PathOf(chunk) == IF chunk.file_path = "absent" THEN "N/A" ELSE chunk.file_path
\* 'json' in mime_type
HasJson(mime) == mime \in {"application/json"}

Chunk(content, mime, path) ==
    [chunk_content |-> content, mime_type |-> mime, file_path |-> path]

\* chunk_content.splitlines()
RECURSIVE SplitLines(_)
SplitLines(s) ==
    IF s = <<>> THEN <<>>
    ELSE IF \E i \in 1..Len(s) : s[i] = "\n"
         THEN LET i == CHOOSE i \in 1..Len(s) :
                         s[i] = "\n" /\ \A j \in 1..(i - 1) : s[j] # "\n"
              IN  <<SubSeq(s, 1, i - 1)>> \o SplitLines(SubSeq(s, i + 1, Len(s)))
         ELSE <<s>>

IsSpace(c) == c \in {" ", "\n"}

\* line.strip()
Strip(s) ==
    IF \A i \in 1..Len(s) : IsSpace(s[i]) THEN <<>>
    ELSE LET first == CHOOSE i \in 1..Len(s) :
                          ~IsSpace(s[i]) /\ \A j \in 1..(i - 1) : IsSpace(s[j])
             last == CHOOSE i \in 1..Len(s) :
                         ~IsSpace(s[i]) /\ \A j \in (i + 1)..Len(s) : IsSpace(s[j])
         IN  SubSeq(s, first, last)

\* isolate_relevant_line: the first line containing the query, stripped; ""
\* when no line contains it.
isolate_relevant_line(chunk_content, query) ==
    LET lines == SplitLines(chunk_content)
    IN  IF \E i \in 1..Len(lines) : Contains(query, lines[i])
        THEN Strip(lines[CHOOSE i \in 1..Len(lines) :
                           /\ Contains(query, lines[i])
                           /\ \A j \in 1..(i - 1) : ~Contains(query, lines[j])])
        ELSE <<>>

LineRecord(line) == [kind |-> "line", value |-> line]
DictRecord(obj) == [kind |-> "dict", value |-> obj]

\* A slip: a parsed JSON chunk with no relevant object falls back to text.
relevant_record_with_fallback(chunk, query) ==
    LET content_str == chunk.chunk_content
        line == isolate_relevant_line(content_str, query)
        text_record == IF line = <<>> THEN None ELSE LineRecord(line)
    IN  IF HasJson(MimeOf(chunk))
        THEN LET content_json == json_loads(content_str)
             IN  IF content_json = JSONDecodeError
                 THEN text_record
                 ELSE LET relevant_objects ==
                              find_relevant_json_object(content_json, query)
                      IN  IF relevant_objects # <<>>
                          THEN DictRecord(relevant_objects[1])
                          ELSE text_record
        ELSE text_record

\* The record the loop body of intelligent_parser_node isolates from one
\* chunk (relevant_record), None when it isolates none.
relevant_record(chunk, query) ==
    LET content_str == chunk.chunk_content
        line == isolate_relevant_line(content_str, query)
        text_record == IF line = <<>> THEN None ELSE LineRecord(line)
    IN  IF HasJson(MimeOf(chunk))
        THEN LET content_json == json_loads(content_str)
             IN  IF content_json = JSONDecodeError
                 THEN text_record
                 ELSE LET relevant_objects ==
                              find_relevant_json_object(content_json, query)
                      IN  IF relevant_objects # <<>>
                          THEN DictRecord(relevant_objects[1])
                          ELSE None
        ELSE text_record

\* What one chunk adds to parsed_records: nothing for an empty chunk or a
\* chunk with no relevant record.
ParsedOf(chunk, query) ==
    IF chunk.chunk_content = <<>> THEN <<>>
    ELSE LET rec == relevant_record(chunk, query)
         IN  IF rec = None THEN <<>>
             ELSE <<[source_file |-> PathOf(chunk),
                     file_type |-> MimeOf(chunk),
                     record |-> rec]>>

\* search_node: one POST to the chunk search endpoint. A RequestException
\* (connection failure, HTTP error status) is caught and gives no chunks.
\* The response body is taken to be what the API documents: an object whose
\* "items" are chunks.
search_node(responses) ==
    /\ wf_pc = "search"
    /\ \E outcome \in {"ok", "RequestException"} :
         /\ log' = Append(log, Call(Len(Calls) + 1, outcome))
         /\ IF outcome = "ok"
            THEN raw_chunks' \in responses
            ELSE raw_chunks' = <<>>
    /\ wf_pc' = "parse_records"
    /\ wf_trace' = Append(wf_trace, "search")
    /\ UNCHANGED <<wf_model, wf_query, parsed_records, analysis_results, final_report>>
    /\ UNCHANGED <<site, max_retries, delay, attempt, w_pc, w_out>>
    /\ UNCHANGED not_wf

\* "for i, chunk in enumerate(raw_chunks)": the records of the chunks, in order.
RECURSIVE ParsedRecords(_, _)
ParsedRecords(chunks, query) ==
    IF chunks = <<>> THEN <<>>
    ELSE ParsedOf(Head(chunks), query) \o ParsedRecords(Tail(chunks), query)

\* intelligent_parser_node
parse_records ==
    /\ wf_pc = "parse_records"
    /\ parsed_records' = ParsedRecords(raw_chunks, wf_query)
    /\ wf_pc' = "analyze_records"
    /\ wf_trace' = Append(wf_trace, "parse_records")
    /\ UNCHANGED <<wf_model, wf_query, raw_chunks, analysis_results, final_report>>
    /\ UNCHANGED retry_vars
    /\ UNCHANGED not_wf

\* What the analysis chain answers for a record: free text. The prompt asks
\* for a one-sentence summary; nothing checks the answer, which may as well
\* read like a label.
Summaries == {"a one-sentence summary", "primary record", "contextual mention"}
ChainOutcomes == Summaries \cup {"raise"}

\* What targeted_analysis_node appends for record i: the finding with the
\* summary and its source, or the failure message when the chain raised.
AnalysisOf(i, item, outcome) ==
    IF outcome # "raise"
    THEN [kind |-> "finding", summary |-> outcome, source_file |-> item.source_file,
          file_type |-> item.file_type, record |-> item.record]
    ELSE [kind |-> "failed", index |-> i]

\* targeted_analysis_node
analyze_records ==
    /\ wf_pc = "analyze_records"
    /\ IF parsed_records = <<>> \/ ~wf_model
       THEN analysis_results' = <<>>
       ELSE \E outcomes \in [1..Len(parsed_records) -> ChainOutcomes] :
              analysis_results' =
                [i \in 1..Len(parsed_records) |->
                   AnalysisOf(i, parsed_records[i], outcomes[i])]
    /\ wf_pc' = "generate_report"
    /\ wf_trace' = Append(wf_trace, "analyze_records")
    /\ UNCHANGED <<wf_model, wf_query, raw_chunks, parsed_records, final_report>>
    /\ UNCHANGED retry_vars
    /\ UNCHANGED not_wf

\* "\n---\n".join(analysis_results): the findings the report prompt holds.
\* A slip: only the findings labelled as primary records are joined.
all_findings_primary_only(results) ==
    SelectSeq(results, LAMBDA entry : entry.kind = "finding"
                                      /\ entry.summary = "primary record")
all_findings(results) == results

\* A slip: report_node without its try/except, so that a failure of the
\* report chain leaves the node.
generate_report_uncaught ==
    /\ wf_pc = "generate_report"
    /\ IF analysis_results = <<>>
       THEN final_report' = [kind |-> "no_findings"] /\ wf_pc' = "END"
       ELSE \E outcome \in {"ok", "raise"} :
              IF outcome = "ok"
              THEN /\ final_report' = [kind |-> "report", findings |-> all_findings(analysis_results)]
                   /\ wf_pc' = "END"
              ELSE /\ final_report' = final_report
                   /\ wf_pc' = "raised"
    /\ wf_trace' = Append(wf_trace, "generate_report")
    /\ UNCHANGED <<wf_model, wf_query, raw_chunks, parsed_records, analysis_results>>
    /\ UNCHANGED retry_vars
    /\ UNCHANGED not_wf

\* report_node
generate_report ==
    /\ wf_pc = "generate_report"
    /\ IF analysis_results = <<>>
       THEN final_report' = [kind |-> "no_findings"]
       ELSE \E outcome \in {"ok", "raise"} :
              final_report' =
                IF outcome = "ok"
                THEN [kind |-> "report", findings |-> all_findings(analysis_results)]
                ELSE [kind |-> "error"]
    /\ wf_pc' = "END"
    /\ wf_trace' = Append(wf_trace, "generate_report")
    /\ UNCHANGED <<wf_model, wf_query, raw_chunks, parsed_records, analysis_results>>
    /\ UNCHANGED retry_vars
    /\ UNCHANGED not_wf

\* A chunk of every kind the parser tells apart.
SampleChunks ==
    {Chunk(<<"a", "b">>, "text/plain", "/data/f1"),
     Chunk(<<"b", "\n", " ", "a", "b">>, "absent", "absent"),
     Chunk(<<"b">>, "text/plain", "/data/f1"),
     Chunk(<<>>, "application/json", "/data/f1"),
     Chunk(<<"a", "b">>, "application/json", "/data/f1"),
     Chunk(JsonText(JDict(<<[k |-> <<"b">>, v |-> JStr(<<"a", "b">>)]>>)),
           "application/json", "/data/f1"),
     Chunk(JsonText(JList(<<JStr(<<"a", "b">>)>>)), "application/json", "absent")}

ChunkLists(chunks) == UNION {[1..n -> chunks] : n \in 0..MaxChunks}

\* A run of the workflow: app.invoke({"profile": ...}).
InitWorkflow ==
    /\ Started
    /\ wf_pc = "search"
    /\ wf_model \in BOOLEAN
    /\ wf_query \in Queries
    /\ raw_chunks = <<>>
    /\ parsed_records = <<>>
    /\ analysis_results = <<>>
    /\ final_report = None
    /\ wf_trace = <<>>
    /\ site = "search_node"
    /\ max_retries = 0
    /\ delay = 0
    /\ attempt = 0
    /\ w_pc = "idle"
    /\ w_out = None
    /\ log = <<>>
    /\ JsonIdle
    /\ SedIdle
    /\ OrchestratorIdle
    /\ AppIdle

NextWorkflow ==
    \/ search_node(ChunkLists(SampleChunks))
    \/ parse_records
    \/ analyze_records
    \/ generate_report

SpecWorkflow == InitWorkflow /\ [][NextWorkflow]_vars

\* intelligent_parser_node on one chunk of any content and type.
AllChunks == {Chunk(c, m, f) : c \in Texts \cup {p[1] : p \in JsonTexts},
                               m \in MimeTypes, f \in FilePaths}

InitChunk ==
    /\ Started
    /\ wf_pc = "parse_records"
    /\ wf_model = TRUE
    /\ wf_query \in Queries
    /\ raw_chunks \in {<<c>> : c \in AllChunks}
    /\ parsed_records = <<>>
    /\ analysis_results = <<>>
    /\ final_report = None
    /\ wf_trace = <<"search">>
    /\ site = "search_node"
    /\ max_retries = 0
    /\ delay = 0
    /\ attempt = 0
    /\ w_pc = "idle"
    /\ w_out = None
    /\ log = <<Call(1, "ok")>>
    /\ JsonIdle
    /\ SedIdle
    /\ OrchestratorIdle
    /\ AppIdle

NextChunk == parse_records

SpecChunk == InitChunk /\ [][NextChunk]_vars

\* ======================================================================
\* Calls of wrapped functions, and the outbound search requests
\* ======================================================================

\* The max_retries a decorated method of tools.py is wrapped with:
\* "@retry_on_error()" takes the default.
RetriesAtOnce(s) == 1
RetriesAt(s) == DefaultMaxRetries

\* A call of a decorated method of tools.py.
InitDecorated ==
    /\ Started
    /\ site \in DecoratedSites
    /\ max_retries = RetriesAt(site)
    /\ delay = DefaultDelay
    /\ attempt = 0
    /\ w_pc = "loop"
    /\ w_out = None
    /\ log = <<>>
    /\ JsonIdle
    /\ SedIdle
    /\ OrchestratorIdle
    /\ AppIdle
    /\ WorkflowIdle

\* A call of any function wrapped with any arguments.
InitWrapped ==
    /\ Started
    /\ site = "wrapped"
    /\ max_retries \in 0..MaxRetries
    /\ delay \in 1..MaxDelay
    /\ attempt = 0
    /\ w_pc = "loop"
    /\ w_out = None
    /\ log = <<>>
    /\ JsonIdle
    /\ SedIdle
    /\ OrchestratorIdle
    /\ AppIdle
    /\ WorkflowIdle

InitRetry == InitDecorated \/ InitWrapped

NextRetry == WrapperAttempt \/ WrapperFallThrough

SpecRetry == InitRetry /\ [][NextRetry]_vars

\* The outbound search requests of the program: the two decorated methods of
\* tools.py and the chunk search POST of search_node.
InitOutbound == InitDecorated \/ InitWorkflow

NextOutbound == WrapperAttempt \/ search_node(ChunkLists(SampleChunks))

SpecOutbound == InitOutbound /\ [][NextOutbound]_vars

\* ======================================================================
\* sed_agent.py: SEDAgent
\* ======================================================================

\* A document summary of the SED API; the "evaluation" key is absent (None)
\* until _evaluate_documents_step adds it to a copy.
Doc(i) == [kind |-> "dict", docId |-> i, title |-> "Document", evaluation |-> None]

\* SEDSearchTool.search when the response holds no "documents".
NoResults == <<[kind |-> "dict", docId |-> 0, title |-> "No Results", evaluation |-> None]>>

\* A response whose "documents" is a list of something other than objects.
Malformed == <<[kind |-> "str", docId |-> 0, title |-> "", evaluation |-> None]>>

\* What SEDSearchTool.search returns: the documents of the response, in the
\* API's order, or the "No Results" placeholder.
RECURSIVE DocsUpTo(_)
DocsUpTo(k) == IF k = 0 THEN <<>> ELSE Append(DocsUpTo(k - 1), Doc(k))

SearchResponses(n) == {DocsUpTo(k) : k \in 0..n} \cup {NoResults, Malformed}

\* The responses a whole run is checked on, and those the ranking is checked on.
SedResponses == SearchResponses(MaxSedDocs)
RankResponses == SearchResponses(MaxDocs) \ {Malformed}

\* "not state['search_results'] or state['search_results'][0].get('title') == 'No Results'"
\* raises AttributeError when the first element has no get().
NothingFoundRaises(results) == results # <<>> /\ results[1].kind # "dict"
NothingFound(results) == results = <<>> \/ results[1].title = "No Results"

\* The edges of SEDAgent._initialize_graph.
\* A slip: the edge out of search_documents skips store_documents.
SedEdgeSkipsStore(node) ==
    CASE node = "START"              -> "optimize_query"
      [] node = "optimize_query"     -> "search_documents"
      [] node = "search_documents"   -> "evaluate_documents"
      [] node = "store_documents"    -> "evaluate_documents"
      [] node = "evaluate_documents" -> "synthesize_results"
      [] node = "synthesize_results" -> "END"

SedEdge(node) ==
    CASE node = "START"              -> "optimize_query"
      [] node = "optimize_query"     -> "search_documents"
      [] node = "search_documents"   -> "store_documents"
      [] node = "store_documents"    -> "evaluate_documents"
      [] node = "evaluate_documents" -> "synthesize_results"
      [] node = "synthesize_results" -> "END"

\* What SEDAgent.run hands back when graph.invoke raised: the except clause
\* returns the error message with the exception in it.
\* A slip: run without its try/except.
RunOnExceptionUncaught(exc) == [kind |-> "raised", is |-> "", exc |-> exc]
RunOnException(exc) ==
    [kind |-> "str", is |-> "I encountered an error while processing your query", exc |-> exc]

\* _optimize_query_step: the LLM rewrites the query; when it raises, the
\* query is kept. original_query is set either way.
optimize_query ==
    /\ sed_pc = "optimize_query"
    /\ \E outcome \in {"ok", "raise"} :
         sed_query' = IF outcome = "ok" THEN "optimized query" ELSE sed_query
    /\ original_query' = sed_query
    /\ sed_pc' = SedEdge("optimize_query")
    /\ sed_trace' = Append(sed_trace, "optimize_query")
    /\ UNCHANGED <<search_results, doc_evaluations, final_summary, doc_summaries,
                   sed_ret, db_documents, db_evaluations>>
    /\ UNCHANGED retry_vars
    /\ UNCHANGED not_sed

\* _search_documents_step, entry: self.sed_tool.search(state['query']) enters
\* the retry wrapper.
search_documents_call ==
    /\ sed_pc = "search_documents"
    /\ w_pc = "idle"
    /\ site' = "SEDSearchTool.search"
    /\ max_retries' = RetriesAt(site')
    /\ delay' = DefaultDelay
    /\ attempt' = 0
    /\ w_pc' = "loop"
    /\ UNCHANGED <<w_out, log>>
    /\ sed_pc' = "in search_documents"
    /\ sed_trace' = Append(sed_trace, "search_documents")
    /\ UNCHANGED <<sed_query, original_query, search_results, doc_evaluations,
                   final_summary, doc_summaries, sed_ret, db_documents, db_evaluations>>
    /\ UNCHANGED not_sed

\* _search_documents_step, after the wrapper: the documents are stored in the
\* state; an exception of the wrapper leaves the step and graph.invoke, and
\* SEDAgent.run returns.
search_documents_return(responses) ==
    /\ sed_pc = "in search_documents"
    /\ w_pc \in {"returned", "raised"}
    /\ IF w_pc = "returned"
       THEN /\ search_results' \in responses
            /\ sed_pc' = SedEdge("search_documents")
            /\ UNCHANGED sed_ret
       ELSE /\ sed_ret' = RunOnException(w_out)
            /\ sed_pc' = "returned"
            /\ UNCHANGED search_results
    /\ UNCHANGED <<sed_query, original_query, doc_evaluations, final_summary,
                   doc_summaries, sed_trace, db_documents, db_evaluations>>
    /\ UNCHANGED retry_vars
    /\ UNCHANGED not_sed

\* "doc.get('docId', 'unknown-' + str(hash(json.dumps(doc))))": the id the API
\* gave, or one made of the document's text and the salt of the process. A
\* docId of 0 stands for a document the API gave no "docId".
HasDocId(doc) == doc.docId # 0
DocIdOf(doc, seed) ==
    IF HasDocId(doc)
    THEN [docId |-> doc.docId, salt |-> 0, text |-> None]
    ELSE [docId |-> 0, salt |-> seed, text |-> doc]

\* json.dumps({'source': 'SED API', 'query': state['query']})
Metadata(query) == [source |-> "SED API", query |-> query]

\* "SELECT doc_id FROM documents WHERE doc_id = ?" finds a row.
Stored(table, doc_id) == \E k \in 1..Len(table) : table[k].doc_id = doc_id

\* One document: UPDATE sets query, content and metadata of the rows with
\* its id and leaves the title; INSERT adds a row.
Upsert(table, doc, query, seed) ==
    LET doc_id == DocIdOf(doc, seed)
    IN  IF Stored(table, doc_id)
        THEN [k \in 1..Len(table) |->
                IF table[k].doc_id = doc_id
                THEN [table[k] EXCEPT !.query = query, !.content = doc,
                                      !.metadata = Metadata(query)]
                ELSE table[k]]
        ELSE Append(table, [doc_id |-> doc_id, query |-> query, title |-> doc.title,
                            content |-> doc, metadata |-> Metadata(query)])

\* "for doc in state['search_results']"
RECURSIVE UpsertAll(_, _, _, _)
UpsertAll(table, docs, query, seed) ==
    IF docs = <<>> THEN table
    ELSE UpsertAll(Upsert(table, Head(docs), query, seed), Tail(docs), query, seed)

\* _store_documents_step: every document is inserted or updated and the
\* transaction committed; a database error is logged and nothing is stored.
\* The test on the first result is outside the try: its exception leaves the
\* step and graph.invoke, and SEDAgent.run returns.
store_documents ==
    /\ sed_pc = "store_documents"
    /\ IF NothingFoundRaises(search_results)
       THEN /\ sed_ret' = RunOnException([kind |-> "exception", type |-> "AttributeError",
                                          call |-> 0])
            /\ sed_pc' = "returned"
            /\ UNCHANGED db_documents
       ELSE /\ IF NothingFound(search_results)
               THEN UNCHANGED db_documents
               ELSE \E outcome \in {"ok", "sqlite3.Error"} :
                      db_documents' = IF outcome = "ok"
                                      THEN UpsertAll(db_documents, search_results, sed_query, hash_seed)
                                      ELSE db_documents
            /\ sed_pc' = SedEdge("store_documents")
            /\ UNCHANGED sed_ret
    /\ sed_trace' = Append(sed_trace, "store_documents")
    /\ UNCHANGED <<sed_query, original_query, search_results, doc_evaluations,
                   final_summary, doc_summaries, db_evaluations>>
    /\ UNCHANGED retry_vars
    /\ UNCHANGED not_sed

\* The scores the evaluation LLM gives (0-10 in the prompt): two of them
\* are enough for sums that tie and sums that differ.
Scores == {0, 1}

Evaluation(r, i) == [relevance_score |-> r, insight_score |-> i]

\* What the evaluation of one document comes to: scores, or a response that
\* does not parse (JSONDecodeError, AttributeError), after which the document
\* is kept without an evaluation.
EvalOutcomes == {Evaluation(r, i) : r \in Scores, i \in Scores} \cup {None}

\* _evaluate_documents_step. The step as a whole fails when the database, the
\* LLM call or a float() conversion raises: the outer except clause then
\* keeps the documents as they were found and nothing is committed.
evaluate_documents ==
    /\ sed_pc = "evaluate_documents"
    /\ IF NothingFound(search_results)
       THEN /\ doc_evaluations' = <<>>
            /\ UNCHANGED db_evaluations
       ELSE \/ \E evals \in [1..Len(search_results) -> EvalOutcomes] :
                 /\ doc_evaluations' =
                      [i \in 1..Len(search_results) |->
                         [search_results[i] EXCEPT !.evaluation = evals[i]]]
                 /\ db_evaluations' =
                      db_evaluations \o
                      SelectSeq([i \in 1..Len(search_results) |->
                                   [doc_id |-> search_results[i].docId,
                                    query |-> sed_query,
                                    evaluation |-> evals[i]]],
                                LAMBDA row : row.evaluation # None)
            \/ /\ doc_evaluations' = search_results
               /\ UNCHANGED db_evaluations
    /\ sed_pc' = SedEdge("evaluate_documents")
    /\ sed_trace' = Append(sed_trace, "evaluate_documents")
    /\ UNCHANGED <<sed_query, original_query, search_results, final_summary,
                   doc_summaries, sed_ret, db_documents>>
    /\ UNCHANGED retry_vars
    /\ UNCHANGED not_sed

\* The sort key: relevance_score + insight_score.
CombinedScore(doc) == doc.evaluation.relevance_score + doc.evaluation.insight_score

\* sorted(..., key=..., reverse=True) is stable: a document goes after every
\* document whose key is greater or equal.
\* A slip: sorting ascending and reversing, which turns ties round.
RECURSIVE InsertReversingTies(_, _)
InsertReversingTies(sorted, doc) ==
    IF sorted = <<>> THEN <<doc>>
    ELSE IF CombinedScore(Head(sorted)) > CombinedScore(doc)
         THEN <<Head(sorted)>> \o InsertReversingTies(Tail(sorted), doc)
         ELSE <<doc>> \o sorted

RECURSIVE InsertByScore(_, _)
InsertByScore(sorted, doc) ==
    IF sorted = <<>> THEN <<doc>>
    ELSE IF CombinedScore(Head(sorted)) >= CombinedScore(doc)
         THEN <<Head(sorted)>> \o InsertByScore(Tail(sorted), doc)
         ELSE <<doc>> \o sorted

RECURSIVE SortInto(_, _)
SortInto(sorted, docs) ==
    IF docs = <<>> THEN sorted
    ELSE SortInto(InsertByScore(sorted, Head(docs)), Tail(docs))

\* sorted_docs: the documents with an "evaluation", by combined score.
SortedDocs(evaluations) ==
    SortInto(<<>>, SelectSeq(evaluations, LAMBDA doc : doc.evaluation # None))

\* sorted_docs[:5]
TopDocs(sorted) == SubSeq(sorted, 1, IF Len(sorted) < TopK THEN Len(sorted) ELSE TopK)

\* _synthesize_results_step: no evaluations, no synthesis; otherwise the
\* top documents go into the prompt, and the LLM's text, or the fallback when
\* it raises, becomes final_summary.
synthesize_results ==
    /\ sed_pc = "synthesize_results"
    /\ IF doc_evaluations = <<>>
       THEN /\ final_summary' = "I searched for relevant documents but did not find any"
            /\ UNCHANGED doc_summaries
       ELSE LET sorted_docs == SortedDocs(doc_evaluations)
            IN  /\ doc_summaries' = TopDocs(sorted_docs)
                /\ \E outcome \in {"ok", "raise"} :
                     final_summary' =
                       IF outcome = "ok"
                       THEN "synthesis"
                       ELSE "fallback"
    /\ sed_pc' = SedEdge("synthesize_results")
    /\ sed_trace' = Append(sed_trace, "synthesize_results")
    /\ UNCHANGED <<sed_query, original_query, search_results, doc_evaluations,
                   sed_ret, db_documents, db_evaluations>>
    /\ UNCHANGED retry_vars
    /\ UNCHANGED not_sed

\* SEDAgent.run, after graph.invoke returned: "return final_state['final_summary']".
run_return ==
    /\ sed_pc = "END"
    /\ sed_ret' = [kind |-> "str", is |-> "final_summary", value |-> final_summary]
    /\ sed_pc' = "returned"
    /\ UNCHANGED <<sed_query, original_query, search_results, doc_evaluations,
                   final_summary, doc_summaries, sed_trace, db_documents, db_evaluations>>
    /\ UNCHANGED retry_vars
    /\ UNCHANGED not_sed

\* SEDAgent.run(query): the initial state of the graph, on a new database.
InitSed ==
    /\ Started
    /\ sed_pc = SedEdge("START")
    /\ sed_query = "user query"
    /\ original_query = ""
    /\ search_results = <<>>
    /\ doc_evaluations = <<>>
    /\ final_summary = ""
    /\ doc_summaries = <<>>
    /\ sed_trace = <<>>
    /\ sed_ret = None
    /\ db_documents = <<>>
    /\ db_evaluations = <<>>
    /\ RetryIdle
    /\ JsonIdle
    /\ WorkflowIdle
    /\ OrchestratorIdle
    /\ AppIdle

NextSed ==
    \/ optimize_query
    \/ search_documents_call
    \/ WrapperAttempt
    \/ search_documents_return(SedResponses)
    \/ store_documents
    \/ evaluate_documents
    \/ synthesize_results
    \/ run_return

SpecSed == InitSed /\ [][NextSed]_vars

\* The evaluation and synthesis steps on any number of documents found.
InitRank ==
    /\ Started
    /\ sed_pc = "evaluate_documents"
    /\ sed_query = "optimized query"
    /\ original_query = "user query"
    /\ search_results \in RankResponses
    /\ doc_evaluations = <<>>
    /\ final_summary = ""
    /\ doc_summaries = <<>>
    /\ sed_trace = <<"optimize_query", "search_documents", "store_documents">>
    /\ sed_ret = None
    /\ db_documents = UpsertAll(<<>>, IF NothingFound(search_results) THEN <<>>
                                      ELSE search_results, sed_query, hash_seed)
    /\ db_evaluations = <<>>
    /\ site = "SEDSearchTool.search"
    /\ max_retries = RetriesAt(site)
    /\ delay = DefaultDelay
    /\ attempt = 0
    /\ w_pc = "returned"
    /\ w_out = [kind |-> "value", call |-> 1]
    /\ log = <<Call(1, "ok")>>
    /\ JsonIdle
    /\ WorkflowIdle
    /\ OrchestratorIdle
    /\ AppIdle

NextRank == evaluate_documents \/ synthesize_results \/ run_return

SpecRank == InitRank /\ [][NextRank]_vars

\* ---- the documents table over several runs

\* The documents the store step is checked on: two ids, a second text under
\* the first id, and a document without "docId".
StoreDocs ==
    {Doc(1), Doc(2), [Doc(1) EXCEPT !.title = "Document, revised"],
     [kind |-> "dict", docId |-> 0, title |-> "Untitled", evaluation |-> None]}
StoreResponses == UNION {[1..n -> StoreDocs] : n \in 0..MaxStoreDocs} \cup {NoResults}
StoreQueries == {"optimized query", "another query"}

\* The store steps so far.
Stores == Len(SelectSeq(sed_trace, LAMBDA step : step = "store_documents"))

\* A later call of SEDAgent.run on the same database file, taken to its store
\* step: the query of optimize_query and the results of the search, in the
\* same process or in one started since.
run_again ==
    /\ sed_pc = SedEdge("store_documents")
    /\ Stores < MaxStores
    /\ hash_seed' \in HashSeeds
    /\ sed_query' \in StoreQueries
    /\ search_results' \in StoreResponses
    /\ sed_pc' = "store_documents"
    /\ UNCHANGED <<original_query, doc_evaluations, final_summary, doc_summaries,
                   sed_trace, sed_ret, db_documents, db_evaluations>>
    /\ UNCHANGED <<retry_vars, json_vars, wf_vars, orch_vars, app_vars>>

\* SEDAgent.run on a new database, at its store step.
InitStore ==
    /\ hash_seed \in HashSeeds
    /\ sed_pc = "store_documents"
    /\ sed_query \in StoreQueries
    /\ original_query = "user query"
    /\ search_results \in StoreResponses
    /\ doc_evaluations = <<>>
    /\ final_summary = ""
    /\ doc_summaries = <<>>
    /\ sed_trace = <<"optimize_query", "search_documents">>
    /\ sed_ret = None
    /\ db_documents = <<>>
    /\ db_evaluations = <<>>
    /\ site = "SEDSearchTool.search"
    /\ max_retries = RetriesAt(site)
    /\ delay = DefaultDelay
    /\ attempt = 0
    /\ w_pc = "returned"
    /\ w_out = [kind |-> "value", call |-> 1]
    /\ log = <<Call(1, "ok")>>
    /\ JsonIdle
    /\ WorkflowIdle
    /\ OrchestratorIdle
    /\ AppIdle

NextStore == store_documents \/ run_again

SpecStore == InitStore /\ [][NextStore]_vars

\* ======================================================================
\* orchestrator.py: OrchestratorAgent
\* ======================================================================

Msg(role, content) == [role |-> role, content |-> content]

\* The conversations process_message is called with: the user's turn is last.
Conversations ==
    {<<Msg("user", "question")>>,
     <<Msg("user", "hello"), Msg("assistant", "hi"), Msg("user", "question")>>}

\* A key the planner's JSON object does not hold.
Absent == "<absent>"

\* What the planner LLM call and json.loads come to: the call raises, the text
\* is not JSON, the JSON is not an object (so .get raises), or an object with
\* any string, or nothing, under "tool_choice" and "query".
PlannerOutcomes ==
    {[kind |-> "raise"], [kind |-> "invalid JSON"], [kind |-> "list"]}
    \cup {[kind |-> "object", tool_choice |-> c, query |-> q] :
            c \in {"web_search", "sed_search", "none", "search", Absent},
            q \in {"rewritten question", Absent}}

\* dict.get(key, default)
Get(value, default) == IF value = Absent THEN default ELSE value

\* The path map of graph.add_conditional_edges("plan_and_route", ...); a key
\* it does not hold raises KeyError.
ConditionalEdge(choice) ==
    CASE choice = "web_search" -> "perform_web_search"
      [] choice = "sed_search" -> "call_sed_agent"
      [] choice = "none"       -> "generate_response"
      [] OTHER                 -> "KeyError"

\* A slip: process_message without its try/except, and the exception leaves it.
ApologyUncaught == [kind |-> "raised", messages |-> <<>>]
\* process_message's except clause: the messages it was called with and the
\* apology.
Apology ==
    [kind |-> "apology",
     messages |-> Append(o_input, Msg("assistant", "I'm sorry, an error occurred"))]

\* WebSearchTool.run: the results, or the "No Results" placeholder.
WebResult(i) == [title |-> "Title", snippet |-> "Snippet", url |-> i]
WebResponses ==
    {<<[title |-> "No Results", snippet |-> "No web results found.", url |-> 0]>>,
     <<WebResult(1)>>, <<WebResult(1), WebResult(2)>>}

\* "if tool_choice == 'sed_search' and not self.sed_agent: tool_choice = 'web_search'"
\* A slip: the choice is kept without an agent to serve it.
WithoutSedAgentKept(chosen, agent) == chosen
WithoutSedAgent(chosen, agent) ==
    IF chosen = "sed_search" /\ ~agent THEN "web_search" ELSE chosen

\* The except clause of _plan_and_route: no tool and no query.
\* A slip: the planner's failure falls back on the web search.
OnPlannerFailureSearches == [tool_choice |-> "web_search", search_query |-> ""]
OnPlannerFailure == [tool_choice |-> "none", search_query |-> ""]

\* The try block of _plan_and_route on what the planner gave: the choice and
\* the query of a JSON object; anything else raises into the except clause.
Planned(plan, agent) ==
    IF plan.kind = "object"
    THEN [tool_choice |-> WithoutSedAgent(Get(plan.tool_choice, "none"), agent),
          search_query |-> Get(plan.query, "")]
    ELSE OnPlannerFailure

\* _plan_and_route, and the conditional edge out of it.
plan_and_route ==
    /\ o_pc = "plan_and_route"
    /\ \E plan \in PlannerOutcomes :
         LET planned == Planned(plan, sed_agent)
             target == ConditionalEdge(planned.tool_choice)
         IN  /\ o_plan' = plan
             /\ tool_choice' = planned.tool_choice
             /\ search_query' = planned.search_query
             /\ IF target = "KeyError"
                THEN /\ o_pc' = "returned"
                     /\ o_ret' = Apology
                ELSE /\ o_pc' = target
                     /\ UNCHANGED o_ret
    /\ o_trace' = Append(o_trace, "plan_and_route")
    /\ UNCHANGED <<sed_agent, o_input, messages, web_results, sed_summary>>
    /\ UNCHANGED <<retry_vars, sed_vars>>
    /\ UNCHANGED not_orch

\* _perform_web_search, entry: self.web_search_tool.run(query) enters the
\* retry wrapper.
perform_web_search_call ==
    /\ o_pc = "perform_web_search"
    /\ w_pc = "idle"
    /\ site' = "WebSearchTool.run"
    /\ max_retries' = RetriesAt(site')
    /\ delay' = DefaultDelay
    /\ attempt' = 0
    /\ w_pc' = "loop"
    /\ UNCHANGED <<w_out, log>>
    /\ o_pc' = "in perform_web_search"
    /\ o_trace' = Append(o_trace, "perform_web_search")
    /\ UNCHANGED <<sed_agent, o_input, o_plan, messages, tool_choice, search_query,
                   web_results, sed_summary, o_ret>>
    /\ UNCHANGED sed_vars
    /\ UNCHANGED not_orch

\* _perform_web_search, after the wrapper.
perform_web_search_return ==
    /\ o_pc = "in perform_web_search"
    /\ w_pc \in {"returned", "raised"}
    /\ IF w_pc = "returned"
       THEN /\ web_results' \in WebResponses
            /\ o_pc' = "generate_response"
            /\ UNCHANGED o_ret
       ELSE /\ o_ret' = Apology
            /\ o_pc' = "returned"
            /\ UNCHANGED web_results
    /\ UNCHANGED <<sed_agent, o_input, o_plan, messages, tool_choice, search_query,
                   sed_summary, o_trace>>
    /\ UNCHANGED <<retry_vars, sed_vars>>
    /\ UNCHANGED not_orch

\* _call_sed_agent, entry: self.sed_agent.run(query) builds the initial state
\* of the SED graph; without an agent the attribute access raises.
call_sed_agent_call ==
    /\ o_pc = "call_sed_agent"
    /\ IF sed_agent
       THEN /\ sed_pc = "idle"
            /\ sed_pc' = SedEdge("START")
            /\ sed_query' = search_query
            /\ original_query' = ""
            /\ search_results' = <<>>
            /\ doc_evaluations' = <<>>
            /\ final_summary' = ""
            /\ UNCHANGED <<doc_summaries, sed_trace, sed_ret, db_documents, db_evaluations>>
            /\ o_pc' = "in call_sed_agent"
            /\ UNCHANGED o_ret
       ELSE /\ o_ret' = Apology
            /\ o_pc' = "returned"
            /\ UNCHANGED sed_vars
    /\ o_trace' = Append(o_trace, "call_sed_agent")
    /\ UNCHANGED <<sed_agent, o_input, o_plan, messages, tool_choice, search_query,
                   web_results, sed_summary>>
    /\ UNCHANGED retry_vars
    /\ UNCHANGED not_orch

\* _call_sed_agent, after SEDAgent.run.
call_sed_agent_return ==
    /\ o_pc = "in call_sed_agent"
    /\ sed_pc = "returned"
    /\ IF sed_ret.kind = "str"
       THEN /\ sed_summary' = sed_ret
            /\ o_pc' = "generate_response"
            /\ UNCHANGED o_ret
       ELSE /\ o_ret' = Apology
            /\ o_pc' = "returned"
            /\ UNCHANGED sed_summary
    /\ UNCHANGED <<sed_agent, o_input, o_plan, messages, tool_choice, search_query,
                   web_results, o_trace>>
    /\ UNCHANGED <<retry_vars, sed_vars>>
    /\ UNCHANGED not_orch

\* _generate_response: the prompt is built from the web results, else from
\* the SED summary, else from the conversation alone; the LLM's answer is
\* appended to the messages. The LLM call is not guarded.
generate_response ==
    /\ o_pc = "generate_response"
    /\ \E outcome \in {"ok", "raise"} :
         IF outcome = "ok"
         THEN /\ messages' =
                   Append(messages,
                          Msg("assistant",
                              IF web_results # <<>> THEN "answer from the web results"
                              ELSE IF sed_summary # EmptyStr THEN "answer from the SED summary"
                              ELSE "conversational answer"))
              /\ o_pc' = "END"
              /\ UNCHANGED o_ret
         ELSE /\ o_ret' = Apology
              /\ o_pc' = "returned"
              /\ UNCHANGED messages
    /\ o_trace' = Append(o_trace, "generate_response")
    /\ UNCHANGED <<sed_agent, o_input, o_plan, tool_choice, search_query, web_results,
                   sed_summary>>
    /\ UNCHANGED <<retry_vars, sed_vars>>
    /\ UNCHANGED not_orch

\* process_message, after graph.invoke returned: "return final_state".
process_message_return ==
    /\ o_pc = "END"
    /\ o_ret' = [kind |-> "state", messages |-> messages]
    /\ o_pc' = "returned"
    /\ UNCHANGED <<sed_agent, o_input, o_plan, messages, tool_choice, search_query,
                   web_results, sed_summary, o_trace>>
    /\ UNCHANGED <<retry_vars, sed_vars>>
    /\ UNCHANGED not_orch

\* OrchestratorAgent.process_message(messages): the initial state of the graph.
InitOrchestrator ==
    /\ Started
    /\ o_pc = "plan_and_route"
    /\ sed_agent \in BOOLEAN
    /\ o_input \in Conversations
    /\ o_plan = None
    /\ messages = o_input
    /\ tool_choice = "none"
    /\ search_query = ""
    /\ web_results = <<>>
    /\ sed_summary = EmptyStr
    /\ o_trace = <<>>
    /\ o_ret = None
    /\ RetryIdle
    /\ JsonIdle
    /\ WorkflowIdle
    /\ SedIdle
    /\ AppIdle

NextOrchestrator ==
    \/ plan_and_route
    \/ perform_web_search_call
    \/ WrapperAttempt
    \/ perform_web_search_return
    \/ call_sed_agent_call
    \/ optimize_query
    \/ search_documents_call
    \/ search_documents_return(SedResponses)
    \/ store_documents
    \/ evaluate_documents
    \/ synthesize_results
    \/ run_return
    \/ call_sed_agent_return
    \/ generate_response
    \/ process_message_return

SpecOrchestrator == InitOrchestrator /\ [][NextOrchestrator]_vars

\* ======================================================================
\* app.py: SearchTool and Agent
\* ======================================================================

\* "@retry_on_error(max_retries=3)" on SearchTool.run, and the decorator's
\* default delay.
AppMaxRetries == 3
AppDelay == 1
\* self.min_search_interval
MinSearchInterval == 2

\* How long a call to the LLM or to the search provider can take, in seconds.
Elapsed == 0..MaxElapsed

AppResult(i) == [title |-> "Title", snippet |-> "Body", url |-> i]
AppNoResults ==
    [title |-> "No Results", snippet |-> "No results found for your query.", url |-> 0]
\* What SearchTool.run returns: the results, or the "No Results" placeholder.
AppResponses == {<<AppNoResults>>, <<AppResult(1)>>, <<AppResult(1), AppResult(2)>>}

\* The wait of the rate limiting: "if time_since_last_search <
\* self.min_search_interval: time.sleep(wait_time)".
RateLimitWait(current_time, last) ==
    IF current_time - last < MinSearchInterval
    THEN MinSearchInterval - (current_time - last)
    ELSE 0

\* SearchTool.run up to the request: _transform_query asks the LLM (and
\* returns a query whatever the LLM does), then the rate limiting waits.
SearchTool_run ==
    /\ st_pc = "run"
    /\ \E d \in Elapsed :
         LET current_time == now + d
         IN  now' = current_time + RateLimitWait(current_time, last_search_time)
    /\ st_pc' = "request"
    /\ UNCHANGED <<st_attempt, last_search_time, st_requests>>
    /\ UNCHANGED agent_vars
    /\ UNCHANGED not_app

\* SearchTool.run from the request on, and the wrapper's handling of its
\* outcome: ddgs.text is called; when it returns, last_search_time is set and
\* the results go to the caller; when it raises, the body raises SearchError
\* and the wrapper re-raises on the last attempt, else sleeps and calls run
\* again.
SearchTool_request ==
    /\ st_pc = "request"
    /\ \E outcome \in {"ok", "raise"}, d \in Elapsed :
         /\ st_requests' = Append(st_requests, [at |-> now, outcome |-> outcome])
         /\ IF outcome = "ok"
            THEN /\ now' = now + d
                 /\ last_search_time' = now + d
                 /\ st_pc' = "returned"
                 /\ UNCHANGED st_attempt
            ELSE IF IsLastAttempt(st_attempt, AppMaxRetries)
            THEN /\ now' = now + d
                 /\ st_pc' = "raised"
                 /\ UNCHANGED <<st_attempt, last_search_time>>
            ELSE /\ now' = now + d + Backoff(AppDelay, st_attempt)
                 /\ st_attempt' = st_attempt + 1
                 /\ st_pc' = "run"
                 /\ UNCHANGED last_search_time
    /\ UNCHANGED agent_vars
    /\ UNCHANGED not_app

\* process_message's except clause: the apology is appended to the messages.
AppApology == Msg("assistant", "I apologize, but I encountered an error")

\* ChatInterface._process_user_input: the user's message is appended,
\* _create_new_state builds the state of the turn and process_message starts
\* the graph at its entry point.
ChatInterface_process_user_input ==
    /\ a_pc \in {"idle", "returned"}
    /\ a_turns < MaxTurns
    /\ a_turns' = a_turns + 1
    /\ \E d \in Elapsed : now' = now + d
    /\ a_messages' = Append(a_messages, Msg("user", "question"))
    /\ should_search' \in BOOLEAN
    /\ a_search_results' = <<>>
    /\ a_prompt' = <<>>
    /\ a_trace' = <<>>
    /\ a_pc' = "process_input"
    /\ UNCHANGED <<st_pc, st_attempt, last_search_time, st_requests>>
    /\ UNCHANGED not_app

\* Agent._process_input
Agent_process_input ==
    /\ a_pc = "process_input"
    /\ a_pc' = "check_search_need"
    /\ a_trace' = Append(a_trace, "process_input")
    /\ UNCHANGED <<a_messages, should_search, a_search_results, a_prompt, a_turns>>
    /\ UNCHANGED tool_vars
    /\ UNCHANGED not_app

\* Agent._should_search_node and the conditional edge out of it: the LLM
\* answers yes or something else, or the call raises and the node settles on
\* no search.
Agent_should_search_node ==
    /\ a_pc = "check_search_need"
    /\ \E decision \in {"yes", "no", "raise"}, d \in Elapsed :
         /\ should_search' = (decision = "yes")
         /\ a_pc' = IF decision = "yes" THEN "perform_search" ELSE "generate_response"
         /\ now' = now + d
    /\ a_trace' = Append(a_trace, "check_search_need")
    /\ UNCHANGED <<a_messages, a_search_results, a_prompt, a_turns>>
    /\ UNCHANGED <<st_pc, st_attempt, last_search_time, st_requests>>
    /\ UNCHANGED not_app

\* Agent._perform_search, entry: self.search_tool.run(query) enters the
\* wrapper.
Agent_perform_search_call ==
    /\ a_pc = "perform_search"
    /\ st_pc \in {"idle", "returned", "raised"}
    /\ st_pc' = "run"
    /\ st_attempt' = 0
    /\ a_pc' = "in perform_search"
    /\ a_trace' = Append(a_trace, "perform_search")
    /\ UNCHANGED <<a_messages, should_search, a_search_results, a_prompt, a_turns>>
    /\ UNCHANGED <<now, last_search_time, st_requests>>
    /\ UNCHANGED not_app

\* Agent._perform_search, after the wrapper: the results are stored in the
\* state; a failed search raises SearchError, the graph stops and
\* process_message appends the apology.
Agent_perform_search_return ==
    /\ a_pc = "in perform_search"
    /\ st_pc \in {"returned", "raised"}
    /\ IF st_pc = "returned"
       THEN /\ a_search_results' \in AppResponses
            /\ a_pc' = "generate_response"
            /\ UNCHANGED a_messages
       ELSE /\ a_messages' = Append(a_messages, AppApology)
            /\ a_pc' = "returned"
            /\ UNCHANGED a_search_results
    /\ UNCHANGED <<should_search, a_prompt, a_trace, a_turns>>
    /\ UNCHANGED tool_vars
    /\ UNCHANGED not_app

\* The prompt of _generate_response, by the values interpolated into it.
AgentPrompt(msgs, results) ==
    <<[section |-> "conversation", items |-> msgs]>>

\* Agent._generate_response: the prompt is built and sent to the LLM; the
\* answer is appended to the messages, or the call raises LLMError and
\* process_message appends the apology.
Agent_generate_response ==
    /\ a_pc = "generate_response"
    /\ a_prompt' = AgentPrompt(a_messages, a_search_results)
    /\ \E outcome \in {"ok", "raise"}, d \in Elapsed :
         /\ a_messages' = Append(a_messages,
                                 IF outcome = "ok" THEN Msg("assistant", "answer")
                                 ELSE AppApology)
         /\ now' = now + d
    /\ a_pc' = "returned"
    /\ a_trace' = Append(a_trace, "generate_response")
    /\ UNCHANGED <<should_search, a_search_results, a_turns>>
    /\ UNCHANGED <<st_pc, st_attempt, last_search_time, st_requests>>
    /\ UNCHANGED not_app

\* The app after main(): Agent() and its SearchTool are constructed, no
\* message yet; the clock is past the first interval.
InitApp ==
    /\ Started
    /\ a_pc = "idle"
    /\ a_messages = <<>>
    /\ should_search = FALSE
    /\ a_search_results = <<>>
    /\ a_prompt = <<>>
    /\ a_trace = <<>>
    /\ a_turns = 0
    /\ st_pc = "idle"
    /\ st_attempt = 0
    /\ now = MinSearchInterval
    /\ last_search_time = 0
    /\ st_requests = <<>>
    /\ RetryIdle
    /\ JsonIdle
    /\ WorkflowIdle
    /\ SedIdle
    /\ OrchestratorIdle

NextApp ==
    \/ ChatInterface_process_user_input
    \/ Agent_process_input
    \/ Agent_should_search_node
    \/ Agent_perform_search_call
    \/ SearchTool_run
    \/ SearchTool_request
    \/ Agent_perform_search_return
    \/ Agent_generate_response

SpecApp == InitApp /\ [][NextApp]_vars

\* ======================================================================
\* Properties
\* ======================================================================

\* C3: a function wrapped with max_retries = N >= 1 is invoked at most N
\* times; only the last invocation can be one that did not raise, and the
\* wrapper returns its value; when all N invocations raise, the wrapper
\* raises the exception of the N-th; it never returns None.
C3_RetryAtMostN ==
    (w_pc # "idle" /\ max_retries >= 1) =>
      /\ Len(Calls) <= max_retries
      /\ \A i \in 1..(Len(Calls) - 1) : Calls[i].outcome # "ok"
      /\ w_pc = "returned" =>
           /\ Len(Calls) >= 1
           /\ Calls[Len(Calls)].outcome = "ok"
           /\ w_out = [kind |-> "value", call |-> Len(Calls)]
      /\ w_pc = "raised" =>
           /\ Len(Calls) = max_retries
           /\ \A i \in 1..max_retries : Calls[i].outcome # "ok"
           /\ w_out = [kind |-> "exception", type |-> Calls[max_retries].outcome,
                       call |-> max_retries]
      /\ w_pc \in {"returned", "raised"} => w_out # None

\* All N attempts of a wrapped function raised, N >= 2.
C3_Witness ==
    /\ w_pc = "raised"
    /\ max_retries >= 2
    /\ Len(Calls) = max_retries

\* C4: after the k-th failed attempt, k < max_retries, the wrapper sleeps
\* delay * k before attempt k + 1; the sleeps are strictly increasing; there
\* is no sleep before the first attempt and none after the last failed one.
C4_BackoffWaits ==
    w_pc # "idle" =>
      /\ \A k \in 1..Len(Sleeps) : Sleeps[k].secs = delay * k
      /\ \A k \in 1..(Len(Sleeps) - 1) : Sleeps[k].secs < Sleeps[k + 1].secs
      /\ log # <<>> => log[1].ev = "call"
      /\ \A i \in 1..Len(log) :
           /\ log[i].ev = "sleep" =>
                /\ i > 1
                /\ log[i - 1].ev = "call"
                /\ log[i - 1].outcome # "ok"
                /\ log[i - 1].n < max_retries
                /\ i < Len(log) => log[i + 1].ev = "call"
           /\ (log[i].ev = "call" /\ log[i].outcome # "ok" /\ log[i].n < max_retries) =>
                /\ i < Len(log)
                /\ log[i + 1] = Sleep(delay * log[i].n)
           /\ (log[i].ev = "call" /\ log[i].n = max_retries) => i = Len(log)

\* Three attempts failed with a delay above one second: two sleeps were made.
C4_Witness ==
    /\ w_pc = "raised"
    /\ delay >= 2
    /\ Len(Sleeps) >= 2
\* An outbound search call has handed its outcome to its caller.
Finished ==
    IF site = "search_node" THEN wf_pc \notin {"idle", "search"}
    ELSE w_pc \in {"returned", "raised"}

FirstRequestFailed == Calls # <<>> /\ Calls[1].outcome # "ok"

\* C2 (as stated): every outbound search request (WebSearchTool.run,
\* SEDSearchTool.search, the POST of search_node) whose first attempt fails is
\* attempted again before its caller sees the outcome.
C2_Original ==
    (Finished /\ FirstRequestFailed) => Len(Calls) >= 2

\* C2 (amended): the two decorated methods of tools.py are re-attempted, and
\* report a failure only after DefaultMaxRetries failed requests; search_node
\* issues one request, never sleeps, and turns a failed request into an empty
\* raw_chunks.
C2_RetryOnlyInTools ==
    /\ site \in DecoratedSites =>
         /\ (Finished /\ FirstRequestFailed) => Len(Calls) >= 2
         /\ w_pc = "raised" =>
              /\ Len(Calls) = DefaultMaxRetries
              /\ \A i \in 1..Len(Calls) : Calls[i].outcome # "ok"
    /\ site = "search_node" =>
         /\ Len(Calls) <= 1
         /\ Sleeps = <<>>
         /\ Finished =>
              /\ Len(Calls) = 1
              /\ Calls[1].outcome # "ok" => raw_chunks = <<>>

\* The POST of search_node failed and the node has returned.
C2_Witness ==
    /\ site = "search_node"
    /\ Finished
    /\ FirstRequestFailed

IsPrefix(s, t) == Len(s) <= Len(t) /\ SubSeq(t, 1, Len(s)) = s

WorkflowStages == <<"search", "parse_records", "analyze_records", "generate_report">>

TheChunk == raw_chunks[1]
ChunkLines == SplitLines(TheChunk.chunk_content)
HasLine == \E i \in 1..Len(ChunkLines) : Contains(wf_query, ChunkLines[i])
FirstLine ==
    ChunkLines[CHOOSE i \in 1..Len(ChunkLines) :
                 /\ Contains(wf_query, ChunkLines[i])
                 /\ \A j \in 1..(i - 1) : ~Contains(wf_query, ChunkLines[j])]

\* The chunk is searched line by line: its type is not a JSON type, or its
\* content is not JSON.
LineSearched ==
    \/ ~HasJson(MimeOf(TheChunk))
    \/ json_loads(TheChunk.chunk_content) = JSONDecodeError

RecordOf(chunk, rec) ==
    [source_file |-> PathOf(chunk), file_type |-> MimeOf(chunk), record |-> rec]

Parsed == wf_pc = "analyze_records" /\ Len(raw_chunks) = 1

\* C9 (as stated): a record is a JSON object only for a JSON mime type; a
\* chunk searched line by line gives the first line containing the query,
\* stripped, and no record when no line contains it; every chunk with the
\* query on some line gives a record.
C9_Original ==
    Parsed =>
      /\ \A i \in 1..Len(parsed_records) :
           parsed_records[i].record.kind = "dict" => HasJson(MimeOf(TheChunk))
      /\ LineSearched =>
           IF HasLine
           THEN parsed_records = <<RecordOf(TheChunk, LineRecord(Strip(FirstLine)))>>
           ELSE parsed_records = <<>>
      /\ HasLine => parsed_records # <<>>

\* C9 (amended): a record is a JSON object only for a JSON mime type; a
\* chunk searched line by line gives the first line containing the query,
\* stripped, unless that is empty, and no record otherwise; a chunk of a
\* JSON type whose content parses gives the first smallest object holding
\* the query and no record when there is none, whatever its lines hold.
C9_TextFirst ==
    Parsed =>
      /\ \A i \in 1..Len(parsed_records) :
           parsed_records[i].record.kind = "dict" => HasJson(MimeOf(TheChunk))
      /\ LineSearched =>
           IF HasLine /\ Strip(FirstLine) # <<>>
           THEN parsed_records = <<RecordOf(TheChunk, LineRecord(Strip(FirstLine)))>>
           ELSE parsed_records = <<>>
      /\ ~LineSearched =>
           LET objects == SelectSeq(Preorder(json_loads(TheChunk.chunk_content)),
                                    LAMBDA d : Smallest(d, wf_query))
           IN  IF objects # <<>>
               THEN parsed_records = <<RecordOf(TheChunk, DictRecord(objects[1]))>>
               ELSE parsed_records = <<>>

\* A parsed JSON chunk with the query on its line and no record.
C9_Witness ==
    /\ Parsed
    /\ ~LineSearched
    /\ HasLine
    /\ wf_query = <<"a", "b">>
    /\ parsed_records = <<>>


SedSteps ==
    <<"optimize_query", "search_documents", "store_documents", "evaluate_documents",
      "synthesize_results">>

\* A step of the run raised: the search on its last attempt, or the store
\* step on a malformed result.
SedStepRaised == w_pc = "raised" \/ NothingFoundRaises(search_results)

\* C6: the steps of SEDAgent.run start in the order optimize_query,
\* search_documents, store_documents, evaluate_documents, synthesize_results,
\* each at most once and none while search_documents is still running; when
\* no step raised, the run returns only after all five, and returns the
\* final_summary that synthesize_results wrote.
C6_StepOrder ==
    sed_pc # "idle" =>
      /\ IsPrefix(sed_trace, SedSteps)
      /\ sed_pc = "in search_documents" => Len(sed_trace) = 2
      /\ sed_pc \notin {"in search_documents", "END", "returned"} =>
           /\ Len(sed_trace) < Len(SedSteps)
           /\ sed_pc = SedSteps[Len(sed_trace) + 1]
      /\ final_summary # "" => sed_trace = SedSteps
      /\ sed_pc = "END" => sed_trace = SedSteps
      /\ (sed_pc = "returned" /\ ~SedStepRaised) =>
           /\ sed_trace = SedSteps
           /\ sed_ret = [kind |-> "str", is |-> "final_summary", value |-> final_summary]
           /\ final_summary \in {"synthesis", "fallback",
                                 "I searched for relevant documents but did not find any"}

\* A run that retried its search, found two documents and returned the
\* synthesis of both.
C6_Witness ==
    /\ sed_pc = "returned"
    /\ Len(Calls) = 2
    /\ sed_ret.is = "final_summary"
    /\ final_summary = "synthesis"
    /\ Len(doc_summaries) = 2

\* C7: SEDAgent.run always comes to return a string and never raises, whatever
\* the LLM, the SED API and the database do; when every attempt of
\* SEDSearchTool.search failed, no later step has run, nothing was stored, and
\* the string returned is the error message with that exception.
C7_RunNeverRaises ==
    /\ sed_pc \notin {"idle", "returned"} => ENABLED NextSed
    /\ sed_pc = "returned" => sed_ret.kind = "str"
    /\ (sed_pc # "idle" /\ w_pc = "raised") =>
         /\ Len(Calls) = DefaultMaxRetries
         /\ \A i \in 1..Len(Calls) : Calls[i].outcome # "ok"
         /\ sed_trace = <<"optimize_query", "search_documents">>
         /\ search_results = <<>>
         /\ doc_evaluations = <<>>
         /\ final_summary = ""
         /\ db_documents = <<>>
         /\ db_evaluations = <<>>
         /\ sed_pc = "returned" =>
              sed_ret = [kind |-> "str",
                         is |-> "I encountered an error while processing your query",
                         exc |-> w_out]

\* The search failed three times and the run returned the error message.
C7_Witness ==
    /\ sed_pc = "returned"
    /\ w_pc = "raised"
    /\ Len(Calls) = DefaultMaxRetries
    /\ sed_ret.is = "I encountered an error while processing your query"

\* The positions, in the search results, of the documents that were evaluated.
Evaluated == {i \in 1..Len(doc_evaluations) : doc_evaluations[i].evaluation # None}

ScoreSum(i) ==
    doc_evaluations[i].evaluation.relevance_score
    + doc_evaluations[i].evaluation.insight_score

\* Document i ranks before document j: a higher sum, or the same sum and an
\* earlier place in the search results.
RanksBefore(i, j) ==
    \/ ScoreSum(i) > ScoreSum(j)
    \/ ScoreSum(i) = ScoreSum(j) /\ i < j

Listed == {doc_summaries[k].docId : k \in 1..Len(doc_summaries)}

Synthesised == sed_pc \in {"END", "returned"} /\ doc_evaluations # <<>>

\* C10: the documents in the synthesis prompt are evaluated documents, as
\* many as there are up to 5; they are listed by non-increasing
\* relevance_score + insight_score with equal sums in search-result order,
\* and every evaluated document left out ranks after every one listed.
C10_TopFiveRanking ==
    Synthesised =>
      /\ Len(doc_summaries) <= TopK
      /\ Len(doc_summaries) =
           IF Cardinality(Evaluated) < TopK THEN Cardinality(Evaluated) ELSE TopK
      /\ \A k \in 1..Len(doc_summaries) :
           /\ doc_summaries[k].docId \in Evaluated
           /\ doc_summaries[k] = doc_evaluations[doc_summaries[k].docId]
      /\ \A k, l \in 1..Len(doc_summaries) :
           k < l => RanksBefore(doc_summaries[k].docId, doc_summaries[l].docId)
      /\ \A e \in Evaluated \ Listed :
           \A k \in 1..Len(doc_summaries) : RanksBefore(doc_summaries[k].docId, e)

\* More than 5 evaluated documents, two listed ones with equal sums and one
\* left out whose sum equals that of the last one listed.
C10_Witness ==
    /\ Synthesised
    /\ sed_pc = "returned"
    /\ Cardinality(Evaluated) > TopK
    /\ Len(doc_summaries) = TopK
    /\ \E k \in 1..(TopK - 1) :
         ScoreSum(doc_summaries[k].docId) = ScoreSum(doc_summaries[k + 1].docId)
    /\ \E e \in Evaluated \ Listed : ScoreSum(e) = ScoreSum(doc_summaries[TopK].docId)

OrchestratorRoutes ==
    {<<"plan_and_route", "generate_response">>,
     <<"plan_and_route", "perform_web_search", "generate_response">>,
     <<"plan_and_route", "call_sed_agent", "generate_response">>}

Occurrences(trace, node) == Cardinality({k \in 1..Len(trace) : trace[k] = node})

\* C1: in every turn plan_and_route runs first and then exactly one of the
\* three routes (no tool, perform_web_search, call_sed_agent) is taken, with
\* at most one tool; a turn that did not raise ran generate_response once,
\* last, and has ended.
C1_OneRoute ==
    o_pc # "idle" =>
      /\ o_trace # <<>> => o_trace[1] = "plan_and_route"
      /\ Occurrences(o_trace, "perform_web_search")
           + Occurrences(o_trace, "call_sed_agent") <= 1
      /\ o_pc = "returned" =>
           \E route \in OrchestratorRoutes :
             /\ IsPrefix(o_trace, route)
             /\ Len(o_trace) >= 2
             /\ o_ret.kind = "state" => o_trace = route

\* The chunks that gave a record, in the order of raw_chunks.
RECURSIVE Yielding(_, _)
Yielding(chunks, query) ==
    IF chunks = <<>> THEN <<>>
    ELSE (IF ParsedOf(Head(chunks), query) = <<>> THEN <<>> ELSE <<Head(chunks)>>)
         \o Yielding(Tail(chunks), query)

WorkflowParsed == wf_pc \in {"analyze_records", "generate_report", "END"}
WorkflowAnalysed == wf_pc \in {"generate_report", "END"}

\* Every parsed record carries the file path and the MIME type of the chunk
\* it was taken from (the defaults "N/A" and "text/plain" for a chunk the API
\* did not tag).
RecordsCarrySource ==
    WorkflowParsed =>
      LET from == Yielding(raw_chunks, wf_query)
      IN  /\ Len(parsed_records) = Len(from)
          /\ \A i \in 1..Len(parsed_records) :
               /\ parsed_records[i].source_file =
                    (IF from[i].file_path = "absent" THEN "N/A" ELSE from[i].file_path)
               /\ parsed_records[i].file_type =
                    (IF from[i].mime_type = "absent" THEN "text/plain"
                     ELSE from[i].mime_type)

\* C11: every parsed record carries the file path and MIME type of the chunk
\* it was taken from, and every entry of analysis_results passed to
\* report_node names the source file and the file type of the record it was
\* derived from.
C11_SourceCitations ==
    /\ RecordsCarrySource
    /\ (WorkflowAnalysed /\ analysis_results # <<>>) =>
         /\ Len(analysis_results) = Len(parsed_records)
         /\ \A i \in 1..Len(analysis_results) :
              /\ analysis_results[i].kind = "finding"
              /\ analysis_results[i].source_file = parsed_records[i].source_file
              /\ analysis_results[i].file_type = parsed_records[i].file_type

\* The turn searched and stored results, and generate_response has built its
\* prompt.
AnsweredAfterSearch ==
    /\ a_pc = "returned"
    /\ a_search_results # <<>>
    /\ a_prompt # <<>>

\* C12: when perform_search ran and stored search_results for a turn, the
\* results are part of the prompt from which generate_response produces the
\* answer.
C12_ResultsInPrompt ==
    AnsweredAfterSearch =>
      \E k \in 1..Len(a_prompt) :
        /\ a_prompt[k].section = "search_results"
        /\ a_prompt[k].items = a_search_results

\* The rows of the documents table under one doc_id.
RowsOf(table, doc_id) == {k \in 1..Len(table) : table[k].doc_id = doc_id}

OneRowPerDocId(table) ==
    \A k, l \in 1..Len(table) : table[k].doc_id = table[l].doc_id => k = l

\* Every document of the results is the content of a row: the results have
\* been stored before.
StoredBefore(results, table) ==
    \A i \in 1..Len(results) : \E k \in 1..Len(table) : table[k].content = results[i]

\* The store step wrote to the table.
StoreWrote == sed_pc = "store_documents" /\ db_documents' # db_documents

\* C13: the documents table holds at most one row per doc_id after any
\* sequence of runs; storing a document whose doc_id is present updates that
\* row (query, content, metadata) and adds none; storing search results that
\* were stored before leaves the number of rows unchanged.
C13_FlatKeyValueTable ==
    [][/\ OneRowPerDocId(db_documents')
       /\ Len(db_documents') >= Len(db_documents)
       /\ \A k \in 1..Len(db_documents) :
            /\ db_documents'[k].doc_id = db_documents[k].doc_id
            /\ db_documents'[k].title = db_documents[k].title
       /\ StoreWrote =>
            \A i \in 1..Len(search_results) :
              LET doc_id == DocIdOf(search_results[i], hash_seed)
                  row == db_documents'[CHOOSE k \in RowsOf(db_documents', doc_id) : TRUE]
              IN  /\ RowsOf(db_documents', doc_id) # {}
                  /\ row.query = sed_query
                  /\ row.metadata = Metadata(sed_query)
                  /\ \E j \in i..Len(search_results) : row.content = search_results[j]
       /\ (sed_pc = "store_documents" /\ StoredBefore(search_results, db_documents)) =>
            Len(db_documents') = Len(db_documents)
      ]_vars

Labels == {"primary record", "contextual mention"}

C15_RateLimited ==
    \A k \in 1..(Len(st_requests) - 1) :
      st_requests[k + 1].at - st_requests[k].at >= MinSearchInterval

\* The same for the requests that follow a request that returned.
RateLimitedAfterSuccess ==
    \A k \in 1..(Len(st_requests) - 1) :
      st_requests[k].outcome = "ok" =>
        st_requests[k + 1].at - st_requests[k].at >= MinSearchInterval

Answers ==
    {"answer from the web results", "answer from the SED summary", "conversational answer"}

\* C16: process_message never raises: every turn that has started can go on
\* until it returns, and it returns the final state or the apology; for every
\* outcome the messages returned are the input messages, in their order,
\* followed by exactly one new message of role 'assistant', the answer or the
\* apology.
C16_OneNewMessage ==
    /\ o_pc \notin {"idle", "returned"} => ENABLED NextOrchestrator
    /\ o_pc = "returned" =>
         /\ o_ret.kind \in {"state", "apology"}
         /\ Len(o_ret.messages) = Len(o_input) + 1
         /\ SubSeq(o_ret.messages, 1, Len(o_input)) = o_input
         /\ o_ret.messages[Len(o_input) + 1].role = "assistant"
         /\ o_ret.messages[Len(o_input) + 1].content \in
              (IF o_ret.kind = "state" THEN Answers
               ELSE {"I'm sorry, an error occurred"})

\* A turn of a conversation of three messages whose web search returned and
\* whose answer failed: the apology is the fourth message.
C16_Witness ==
    /\ o_pc = "returned"
    /\ o_ret.kind = "apology"
    /\ Len(o_input) = 3
    /\ o_trace = <<"plan_and_route", "perform_web_search", "generate_response">>
    /\ web_results # <<>>
    /\ Len(o_ret.messages) = 4

\* The planner LLM call raised, or what it returned is not JSON.
PlannerFailed == o_plan.kind \in {"raise", "invalid JSON"}

\* C17: when the planner LLM call raises or its output is not parseable
\* JSON, plan_and_route sets tool_choice to 'none' and search_query to '', no
\* tool is invoked in the turn, generate_response runs next, and the answer
\* it appends is the one made from the conversation history alone.
C17_PlannerFailure ==
    PlannerFailed =>
      /\ tool_choice = "none"
      /\ search_query = ""
      /\ Occurrences(o_trace, "perform_web_search") = 0
      /\ Occurrences(o_trace, "call_sed_agent") = 0
      /\ w_pc = "idle" /\ log = <<>>
      /\ sed_pc = "idle"
      /\ web_results = <<>>
      /\ sed_summary = EmptyStr
      /\ o_pc \in {"generate_response", "END", "returned"}
      /\ o_pc = "generate_response" => o_trace = <<"plan_and_route">>
      /\ o_pc \in {"END", "returned"} =>
           o_trace = <<"plan_and_route", "generate_response">>
      /\ o_pc = "END" =>
           messages = Append(o_input, Msg("assistant", "conversational answer"))
      /\ (o_pc = "returned" /\ o_ret.kind = "state") =>
           o_ret.messages = Append(o_input, Msg("assistant", "conversational answer"))

\* The planner's output was not JSON and the turn returned its answer.
C17_Witness ==
    /\ o_plan.kind = "invalid JSON"
    /\ o_pc = "returned"
    /\ o_ret.kind = "state"
    /\ o_ret.messages[Len(o_ret.messages)].content = "conversational answer"

\* The planner chose the SED search.
PlannedSedSearch == o_plan.kind = "object" /\ o_plan.tool_choice = "sed_search"

\* C18: without a SED agent call_sed_agent is never executed and no SED run
\* starts; a planner choice of 'sed_search' is replaced by 'web_search'
\* before routing, and the turn goes on to perform_web_search.
C18_NoSedAgentNoCall ==
    (o_pc # "idle" /\ ~sed_agent) =>
      /\ Occurrences(o_trace, "call_sed_agent") = 0
      /\ o_pc \notin {"call_sed_agent", "in call_sed_agent"}
      /\ sed_pc = "idle"
      /\ sed_summary = EmptyStr
      /\ tool_choice # "sed_search"
      /\ PlannedSedSearch =>
           /\ tool_choice = "web_search"
           /\ o_pc = "perform_web_search" \/ Len(o_trace) >= 2
           /\ Len(o_trace) >= 2 => o_trace[2] = "perform_web_search"

\* Without a SED agent the planner chose 'sed_search', and the turn answered
\* from the web results.
C18_Witness ==
    /\ ~sed_agent
    /\ PlannedSedSearch
    /\ o_pc = "returned"
    /\ o_ret.kind = "state"
    /\ o_trace = <<"plan_and_route", "perform_web_search", "generate_response">>
    /\ o_ret.messages[Len(o_ret.messages)].content = "answer from the web results"

ToolChoices == {"web_search", "sed_search", "none"}

\* C19: after plan_and_route has returned, state.tool_choice is one of
\* 'web_search', 'sed_search', 'none', whatever JSON object the planner
\* returned, and the conditional edge out of plan_and_route has a target
\* for it.
C19_ValidToolChoice ==
    (o_pc # "idle" /\ o_trace # <<>>) =>
      /\ tool_choice \in ToolChoices
      /\ ConditionalEdge(tool_choice) # "KeyError"

====
